---- MODULE Spec2Model ----
(***************************************************************************)
(* The JSON entry point of the code optimiser (json_optimiser.main) and    *)
(* the two classes it drives: Debugger (debugger.py) and CodeOptimiser     *)
(* with its two agents (optimiser.py).                                     *)
(*                                                                         *)
(* Text is a sequence of tokens.  A token is a run of characters that the  *)
(* program never looks inside; " " and "\n" are the whitespace tokens that *)
(* str.strip() removes.  The external collaborators (the Python compiler,  *)
(* pyflakes, black, the Groq service) are functions of the text they are   *)
(* given, or, for the network service, an outcome chosen per call.         *)
(***************************************************************************)
EXTENDS Naturals, Sequences, FiniteSets

\* Longest run of whitespace the service puts around a response.
MaxPad == 1

VARIABLES
    data,             \* the parsed JSON object: fields code and query
    envKey,           \* os.getenv("GROQ_API_KEY")
    groqLib,          \* the groq import succeeded
    pyflakesLib,      \* the pyflakes import succeeded
    blackLib,         \* the black import succeeded
    argsOutput,       \* args.output is set
    pc,               \* main's position
    error,            \* the exception that left main, "none" if none
    code,             \* main's local code
    query,            \* main's local query
    debuggerClient,   \* Debugger.client is not None
    optimiserClient,  \* GroqOptimiserAgent.client is not None
    state,            \* the graph's state: code and query
    initial_report,   \* the first debugger.check result
    optimised,        \* the result of optimiser.optimise
    final_report,     \* the second debugger.check result
    stdout,           \* what main printed, in order
    outFile,          \* what main wrote to args.output
    trace,            \* history: the stages entered, with their inputs
    calls,            \* history: the external calls made, with their stage
    resps             \* history: the service's outcome at each stage

vars == <<data, envKey, groqLib, pyflakesLib, blackLib, argsOutput, pc, error,
          code, query, debuggerClient, optimiserClient, state, initial_report,
          optimised, final_report, stdout, outFile, trace, calls, resps>>

env == <<data, envKey, groqLib, pyflakesLib, blackLib, argsOutput>>

----------------------------------------------------------------------------
(* Text helpers *)

IsSpace(t) == t \in {" ", "\n"}

RECURSIVE lstrip(_)
lstrip(s) == IF s = <<>> THEN s
             ELSE IF IsSpace(Head(s)) THEN lstrip(Tail(s)) ELSE s

RECURSIVE rstrip(_)
rstrip(s) == IF s = <<>> THEN s
             ELSE IF IsSpace(s[Len(s)]) THEN rstrip(SubSeq(s, 1, Len(s) - 1)) ELSE s

strip(s) == rstrip(lstrip(s))

\* filter(None, blocks): the blocks that are not the empty string
FilterNone(blocks) == SelectSeq(blocks, LAMBDA b : b # <<>>)

\* "\n".join(blocks)
RECURSIVE Join(_)
Join(blocks) == IF blocks = <<>> THEN <<>>
                ELSE IF Len(blocks) = 1 THEN blocks[1]
                ELSE blocks[1] \o <<"\n">> \o Join(Tail(blocks))

IsPrefix(p, s) == Len(p) <= Len(s) /\ SubSeq(s, 1, Len(p)) = p

Count(s, t) == Cardinality({i \in 1..Len(s) : s[i] = t})

RECURSIVE Repeat(_, _)
Repeat(t, n) == IF n = 0 THEN <<>> ELSE <<t>> \o Repeat(t, n - 1)

----------------------------------------------------------------------------
(* Inputs *)

EmptyCode       == <<>>
UnformattedCode == <<"x", "=", "1">>
FormattedCode   == <<"x", " ", "=", " ", "1", "\n">>
UnusedImport    == <<"import os", "\n">>
BadSyntax       == <<"def f(:", "\n", " ", "pass">>
Unencodable     == <<"x", "=", "'\\ud800'">>

Codes == {EmptyCode, UnformattedCode, FormattedCode, UnusedImport, BadSyntax, Unencodable}

Queries == {<<>>, <<"add a docstring">>}

Absent == [tag |-> "absent", val |-> <<>>]
Null   == [tag |-> "null", val |-> <<>>]
Str(t) == [tag |-> "str", val |-> t]

\* os.getenv: unset, set to the empty string, set to a key
EnvKeys == {"None", "", "gsk_key"}

NoResp == [kind |-> "nocall", text |-> <<>>]

Padded(base) == {Repeat(" ", i) \o base \o Repeat("\n", i) : i \in 0..MaxPad}

\* What client.chat.completions.create can do: return a response whose first
\* choice has content, return no choices, return a choice whose content is
\* None, or raise.
Failures ==
    { [kind |-> "raise", text |-> <<"Connection error.">>],
      [kind |-> "raise", text |-> <<>>],
      [kind |-> "nochoices", text |-> <<>>],
      [kind |-> "nullcontent", text |-> <<>>] }

AdviceResps ==
    { [kind |-> "content", text |-> t] :
        t \in Padded(<<>>) \cup Padded(<<"Looks fine.">>) } \cup Failures

RewriteResps ==
    { [kind |-> "content", text |-> t] :
        t \in UNION {Padded(c) : c \in {UnformattedCode, BadSyntax, Unencodable}} }
    \cup Failures

----------------------------------------------------------------------------
(* External collaborators *)

\* compile(code, "<string>", "exec")
Compile(c) ==
    IF \E i \in 1..Len(c) : c[i] = "'\\ud800'"
    THEN [exc |-> "UnicodeEncodeError",
          val |-> <<"'utf-8' codec can't encode character '\\ud800'">>]
    ELSE IF \E i \in 1..Len(c) : c[i] = "def f(:"
    THEN [exc |-> "SyntaxError", val |-> <<"invalid syntax (<string>, line 1)">>]
    ELSE [exc |-> "none", val |-> <<>>]

\* pyflakes_api.check(code, ...): the count it returns and what it reports
Pyflakes(c) ==
    IF Compile(c).exc # "none"
    THEN [warnings |-> 1, output |-> <<"<string>:1:7: invalid syntax", "\n">>]
    ELSE IF \E i \in 1..Len(c) : c[i] = "import os"
    THEN [warnings |-> 1, output |-> <<"<string>:1:1: 'os' imported but unused", "\n">>]
    ELSE [warnings |-> 0, output |-> <<>>]

\* black's layout of one text: single spaces around "=", no other blanks
RECURSIVE Blacken(_)
Blacken(c) ==
    IF c = <<>> THEN <<>>
    ELSE IF Head(c) = " " THEN Blacken(Tail(c))
    ELSE IF Head(c) = "=" THEN <<" ", "=", " ">> \o Blacken(Tail(c))
    ELSE <<Head(c)>> \o Blacken(Tail(c))

\* black.format_str(code, mode=FileMode())
FormatStr(c) ==
    IF Compile(c).exc # "none"
    THEN [exc |-> "InvalidInput", val |-> <<>>]
    ELSE [exc |-> "none",
          val |-> IF strip(c) = <<>> THEN <<>> ELSE Blacken(strip(c)) \o <<"\n">>]

\* response.choices[0].message.content.strip(), or the exception raised on the way
ChatCompletion(resp) ==
    CASE resp.kind = "content"     -> [exc |-> "none", val |-> strip(resp.text)]
      [] resp.kind = "nochoices"   -> [exc |-> "IndexError",
                                       val |-> <<"list index out of range">>]
      [] resp.kind = "nullcontent" -> [exc |-> "AttributeError",
                                       val |-> <<"'NoneType' object has no attribute 'strip'">>]
      [] OTHER                     -> [exc |-> "APIConnectionError", val |-> resp.text]

----------------------------------------------------------------------------
(* debugger.py *)

Truthy(key) == key \notin {"None", ""}

\* api_key or os.getenv("GROQ_API_KEY")
ResolveKey(api_key, environ) == IF Truthy(api_key) THEN api_key ELSE environ

\* variant: tests the key against None instead of for truth
MakeClient_NotNone(api_key, lib) == api_key # "None" /\ lib

\* the client is built when the key is truthy and the groq module imported
MakeClient(api_key, lib) == Truthy(api_key) /\ lib

static_analysis(lib, c) ==
    IF ~lib THEN <<"Pyflakes not installed; skipping static analysis.">>
    ELSE LET warnings == Pyflakes(c).warnings
             output   == strip(Pyflakes(c).output)
         IN IF warnings = 0 /\ output = <<>>
            THEN <<"Pyflakes: no issues found.">>
            ELSE <<"Pyflakes issues:", "\n">> \o output

\* the try/except SyntaxError around compile
syntax_check(c) ==
    LET r == Compile(c)
    IN IF r.exc = "none" THEN [exc |-> "none", val |-> <<"No syntax errors detected.">>]
       ELSE IF r.exc = "SyntaxError"
       THEN [exc |-> "none", val |-> <<"Syntax error: ">> \o r.val]
       ELSE [exc |-> r.exc, val |-> r.val]

\* the advisory call and its except Exception
llm_advice(client, resp) ==
    IF ~client THEN <<>>
    ELSE LET r == ChatCompletion(resp)
         IN IF r.exc = "none" THEN r.val
            ELSE <<"Error contacting Groq: ">> \o r.val

\* variant: lists problems only, saying nothing when a check is clean
check_ProblemsOnly(client, lib, c, resp) ==
    LET syntax_result == syntax_check(c)
        static_result == static_analysis(lib, c)
        llm_result    == llm_advice(client, resp)
    IN IF syntax_result.exc # "none" THEN syntax_result
       ELSE [exc |-> "none",
             val |-> Join(FilterNone(<<
                 IF Compile(c).exc = "none" THEN <<>> ELSE syntax_result.val,
                 IF static_result[1] = "Pyflakes issues:" THEN static_result ELSE <<>>,
                 llm_result>>))]

\* variant: joins the three blocks without dropping the empty ones
check_NoFilter(client, lib, c, resp) ==
    LET syntax_result == syntax_check(c)
        static_result == static_analysis(lib, c)
        llm_result    == llm_advice(client, resp)
    IN IF syntax_result.exc # "none" THEN syntax_result
       ELSE [exc |-> "none",
             val |-> Join(<<syntax_result.val, static_result, llm_result>>)]

\* Debugger.check: the report, or the exception that leaves it
check(client, lib, c, resp) ==
    LET syntax_result == syntax_check(c)
        static_result == static_analysis(lib, c)
        llm_result    == llm_advice(client, resp)
    IN IF syntax_result.exc # "none" THEN syntax_result
       ELSE [exc |-> "none",
             val |-> Join(FilterNone(<<syntax_result.val, static_result, llm_result>>))]

\* variant: the advisory call is attempted a second time
check_calls_Retry(stage, client, lib, c) ==
    <<[stage |-> stage, op |-> "compile"]>>
    \o (IF syntax_check(c).exc # "none" THEN <<>>
        ELSE (IF lib THEN <<[stage |-> stage, op |-> "pyflakes"]>> ELSE <<>>)
             \o (IF client THEN <<[stage |-> stage, op |-> "llm_advice"],
                                  [stage |-> stage, op |-> "llm_advice"]>> ELSE <<>>))

\* the external calls one Debugger.check makes, in order
check_calls(stage, client, lib, c) ==
    <<[stage |-> stage, op |-> "compile"]>>
    \o (IF syntax_check(c).exc # "none" THEN <<>>
        ELSE (IF lib THEN <<[stage |-> stage, op |-> "pyflakes"]>> ELSE <<>>)
             \o (IF client THEN <<[stage |-> stage, op |-> "llm_advice"]>> ELSE <<>>))

----------------------------------------------------------------------------
(* optimiser.py *)

\* variant: a failed call returns the code without the annotation
GroqOptimiserAgent_run_Silent(client, c, q, resp) ==
    IF ~client THEN [exc |-> "none", val |-> c]
    ELSE LET r == ChatCompletion(resp)
         IN IF r.exc = "none" THEN [exc |-> "none", val |-> r.val]
            ELSE [exc |-> "none", val |-> c]

\* GroqOptimiserAgent.run
GroqOptimiserAgent_run(client, c, q, resp) ==
    IF ~client THEN [exc |-> "none", val |-> c]
    ELSE LET r == ChatCompletion(resp)
         IN IF r.exc = "none" THEN [exc |-> "none", val |-> r.val]
            ELSE [exc |-> "none",
                  val |-> c \o <<"\n", "# Error contacting Groq: ">> \o r.val]

\* variant: no except clause around format_str
BlackFormatterAgent_run_NoCatch(lib, c, q) ==
    IF ~lib THEN [exc |-> "none", val |-> c]
    ELSE FormatStr(c)

\* variant: the formatted text is dropped and the input returned
BlackFormatterAgent_run_Discard(lib, c, q) == [exc |-> "none", val |-> c]

\* BlackFormatterAgent.run
BlackFormatterAgent_run(lib, c, q) ==
    IF ~lib THEN [exc |-> "none", val |-> c]
    ELSE LET r == FormatStr(c)
         IN IF r.exc = "none" THEN [exc |-> "none", val |-> r.val]
            ELSE [exc |-> "none", val |-> c]

----------------------------------------------------------------------------
(* json_optimiser.py: main *)

\* history: one stage of the run, what it was given and what it returned
Stage(name, input, instruction, r) ==
    [stage |-> name, input |-> input, instruction |-> instruction,
     output |-> r.val, exc |-> r.exc]

\* data.get(field)
Get(v) == IF v.tag = "str" THEN v ELSE Null

Init ==
    /\ data \in [code : {Absent, Null} \cup {Str(c) : c \in Codes},
                 query : {Absent, Null} \cup {Str(q) : q \in Queries}]
    /\ envKey \in EnvKeys
    /\ groqLib \in BOOLEAN
    /\ pyflakesLib \in BOOLEAN
    /\ blackLib \in BOOLEAN
    /\ argsOutput \in BOOLEAN
    /\ pc = "start"
    /\ error = "none"
    /\ code = <<>>
    /\ query = <<>>
    /\ debuggerClient = FALSE
    /\ optimiserClient = FALSE
    /\ state = [code |-> <<>>, query |-> <<>>]
    /\ initial_report = <<>>
    /\ optimised = <<>>
    /\ final_report = <<>>
    /\ stdout = <<>>
    /\ outFile = [written |-> FALSE, text |-> <<>>]
    /\ trace = <<>>
    /\ calls = <<>>
    /\ resps = [initial |-> NoResp, rewrite |-> NoResp, final |-> NoResp]

\* code = data.get("code"); query = data.get("query"); the None test
Validate ==
    /\ pc = "start"
    /\ IF Get(data.code) = Null \/ Get(data.query) = Null
       THEN /\ pc' = "failed"
            /\ error' = "ValueError"
            /\ UNCHANGED <<code, query>>
       ELSE /\ pc' = "validated"
            /\ code' = data.code.val
            /\ query' = data.query.val
            /\ UNCHANGED error
    /\ UNCHANGED <<env, debuggerClient, optimiserClient, state, initial_report,
                   optimised, final_report, stdout, outFile, trace, calls, resps>>

\* debugger = Debugger(); print("Initial code analysis:\n" + debugger.check(code))
InitialCheck ==
    /\ pc = "validated"
    /\ LET client == MakeClient(ResolveKey("None", envKey), groqLib)
       IN \E resp \in (IF client THEN AdviceResps ELSE {NoResp}) :
            LET r == check(client, pyflakesLib, code, resp)
            IN /\ debuggerClient' = client
               /\ trace' = Append(trace, Stage("Reporter", code, <<>>, r))
               /\ calls' = calls \o check_calls("initial", client, pyflakesLib, code)
               /\ resps' = [resps EXCEPT !.initial =
                              IF r.exc = "none" THEN resp ELSE NoResp]
               /\ IF r.exc = "none"
                  THEN /\ initial_report' = r.val
                       /\ stdout' = Append(stdout, <<"Initial code analysis:", "\n">> \o r.val)
                       /\ pc' = "reported_initial"
                       /\ UNCHANGED error
                  ELSE /\ pc' = "aborted"
                       /\ error' = r.exc
                       /\ UNCHANGED <<initial_report, stdout>>
    /\ UNCHANGED <<env, code, query, optimiserClient, state, optimised,
                   final_report, outFile>>

\* optimiser = CodeOptimiser(); graph.invoke: START -> groq
groq_node ==
    /\ pc = "reported_initial"
    /\ LET client == MakeClient(ResolveKey("None", envKey), groqLib)
       IN \E resp \in (IF client THEN RewriteResps ELSE {NoResp}) :
            LET r == GroqOptimiserAgent_run(client, code, query, resp)
            IN /\ optimiserClient' = client
               /\ trace' = Append(trace, Stage("RewriteService", code, query, r))
               /\ calls' = calls \o (IF client
                                     THEN <<[stage |-> "rewrite", op |-> "llm_rewrite"]>>
                                     ELSE <<>>)
               /\ resps' = [resps EXCEPT !.rewrite = resp]
               /\ IF r.exc = "none"
                  THEN /\ state' = [code |-> r.val, query |-> query]
                       /\ pc' = "rewritten"
                       /\ UNCHANGED error
                  ELSE /\ pc' = "aborted"
                       /\ error' = r.exc
                       /\ UNCHANGED state
    /\ UNCHANGED <<env, code, query, debuggerClient, initial_report, optimised,
                   final_report, stdout, outFile>>

\* groq -> format -> END; optimise returns result["code"]
format_node ==
    /\ pc = "rewritten"
    /\ LET r == BlackFormatterAgent_run(blackLib, state.code, state.query)
       IN /\ trace' = Append(trace, Stage("Formatter", state.code, state.query, r))
          /\ calls' = calls \o (IF blackLib
                                THEN <<[stage |-> "format", op |-> "format_str"]>>
                                ELSE <<>>)
          /\ IF r.exc = "none"
             THEN /\ state' = [state EXCEPT !.code = r.val]
                  /\ optimised' = r.val
                  /\ pc' = "formatted"
                  /\ UNCHANGED error
             ELSE /\ pc' = "aborted"
                  /\ error' = r.exc
                  /\ UNCHANGED <<state, optimised>>
    /\ UNCHANGED <<env, code, query, debuggerClient, optimiserClient, initial_report,
                   final_report, stdout, outFile, resps>>

\* print("\nOptimised code analysis:\n" + debugger.check(optimised))
FinalCheckOn(text) ==
    /\ pc = "formatted"
    /\ \E resp \in (IF debuggerClient THEN AdviceResps ELSE {NoResp}) :
         LET r == check(debuggerClient, pyflakesLib, text, resp)
         IN /\ trace' = Append(trace, Stage("Reporter", text, <<>>, r))
            /\ calls' = calls \o check_calls("final", debuggerClient, pyflakesLib, text)
            /\ resps' = [resps EXCEPT !.final = IF r.exc = "none" THEN resp ELSE NoResp]
            /\ IF r.exc = "none"
               THEN /\ final_report' = r.val
                    /\ stdout' = Append(stdout,
                                   <<"\n", "Optimised code analysis:", "\n">> \o r.val)
                    /\ pc' = "reported_final"
                    /\ UNCHANGED error
               ELSE /\ pc' = "aborted"
                    /\ error' = r.exc
                    /\ UNCHANGED <<final_report, stdout>>
    /\ UNCHANGED <<env, code, query, debuggerClient, optimiserClient, state,
                   initial_report, optimised, outFile>>

\* variant: the second report is taken of the original code
FinalCheck_OfOriginal == FinalCheckOn(code)

FinalCheck == FinalCheckOn(optimised)

\* if args.output: write the file, else print the code
Emit ==
    /\ pc = "reported_final"
    /\ IF argsOutput
       THEN /\ outFile' = [written |-> TRUE, text |-> optimised]
            /\ UNCHANGED stdout
       ELSE /\ stdout' = Append(stdout, <<"\n", "Optimised code:", "\n">> \o optimised)
            /\ UNCHANGED outFile
    /\ pc' = "done"
    /\ UNCHANGED <<env, error, code, query, debuggerClient, optimiserClient, state,
                   initial_report, optimised, final_report, trace, calls, resps>>

Next == Validate \/ InitialCheck \/ groq_node \/ format_node \/ FinalCheck \/ Emit

Spec == Init /\ [][Next]_vars

----------------------------------------------------------------------------
(* Properties *)

Order == <<"Reporter", "RewriteService", "Formatter", "Reporter">>

Entered(n)  == Len(trace) >= n
Returned(n) == Entered(n) /\ trace[n].exc = "none"

NoCredential == ~Truthy(envKey)

CallCount(stage, op) ==
    Cardinality({i \in 1..Len(calls) : calls[i] = [stage |-> stage, op |-> op]})

\* the final code main emitted: the file's content, or what followed the
\* "Optimised code:" heading on stdout
Emitted ==
    IF argsOutput THEN outFile.text
    ELSE SubSeq(stdout[Len(stdout)], 4, Len(stdout[Len(stdout)]))

\* C1: the stages run in the order Reporter(original), RewriteService(original,
\* instruction), Formatter(rewritten), Reporter(formatted): the stages entered
\* so far are a prefix of that order, each stage starts only after its
\* predecessor returned and takes the predecessor's output, none runs twice,
\* a run that is done has run all four, and the final report is computed on
\* the text emitted as the final code.
C1_StageOrder ==
    /\ Len(trace) <= Len(Order)
    /\ \A i \in 1..Len(trace) : trace[i].stage = Order[i]
    /\ \A i \in 1..Len(trace) : i < Len(trace) => trace[i].exc = "none"
    /\ pc \in {"start", "failed", "validated"} => Len(trace) = 0
    /\ pc = "reported_initial" => Len(trace) = 1
    /\ pc = "rewritten" => Len(trace) = 2
    /\ pc = "formatted" => Len(trace) = 3
    /\ pc \in {"reported_final", "done"} => Len(trace) = 4
    /\ pc # "aborted" => \A i \in 1..Len(trace) : trace[i].exc = "none"
    /\ Entered(1) => trace[1].input = data.code.val
    /\ Entered(2) => /\ trace[2].input = data.code.val
                     /\ trace[2].instruction = data.query.val
    /\ Entered(3) => trace[3].input = trace[2].output
    /\ Entered(4) => trace[4].input = trace[3].output
    /\ pc = "done" => /\ initial_report = trace[1].output
                      /\ final_report = trace[4].output
                      /\ optimised = trace[4].input
                      /\ Emitted = trace[4].input
                      /\ argsOutput = outFile.written

C1_Witness ==
    /\ pc = "done"
    /\ debuggerClient /\ optimiserClient /\ blackLib /\ pyflakesLib
    /\ resps.rewrite.kind = "content"
    /\ trace[2].output # trace[2].input
    /\ trace[3].output # trace[3].input

\* C2: once validation has passed the run never ends anywhere but in done,
\* with both reports and the final code: no exception leaves main, and every
\* state short of done has a next step.
C2_AlwaysReachesDone ==
    pc \notin {"start", "failed"} =>
        /\ error = "none"
        /\ pc # "aborted"
        /\ pc = "done" => initial_report # <<>> /\ final_report # <<>>

\* C3: with a client configured, a failed rewrite call returns the original
\* code followed by exactly one error annotation holding the failure reason;
\* the code is a prefix of the result and the stage returns normally.
C3_RewriteFailureAnnotates ==
    (Entered(2) /\ optimiserClient /\ resps.rewrite.kind # "content") =>
        LET out    == trace[2].output
            reason == IF resps.rewrite.kind = "raise" THEN resps.rewrite.text
                      ELSE ChatCompletion(resps.rewrite).val
            suffix == SubSeq(out, Len(code) + 1, Len(out))
        IN /\ trace[2].exc = "none"
           /\ Len(trace) = 2 => pc = "rewritten"
           /\ IsPrefix(code, out)
           /\ suffix = <<"\n", "# Error contacting Groq: ">> \o reason
           /\ Count(suffix, "# Error contacting Groq: ") = 1

C3_Witness ==
    /\ Entered(2) /\ optimiserClient
    /\ resps.rewrite.kind = "raise" /\ resps.rewrite.text # <<>>
    /\ code = UnformattedCode

\* C4: with no credential (none passed, none in the environment) the rewrite
\* returns the code unchanged and no call to the service is made.
C4_NoCredentialIsNoOp ==
    (Entered(2) /\ NoCredential) =>
        /\ trace[2].exc = "none"
        /\ trace[2].output = code
        /\ ~optimiserClient
        /\ CallCount("rewrite", "llm_rewrite") = 0
        /\ resps.rewrite = NoResp

C4_Witness ==
    /\ Entered(2) /\ envKey = "" /\ groqLib
    /\ code = UnformattedCode /\ query = <<"add a docstring">>

\* C5: the formatter never raises; it returns the library's text or its input
\* unchanged, and its input unchanged when the library is missing or raises.
C5_FormatterNeverRaises ==
    Entered(3) =>
        LET e == trace[3]
        IN /\ e.exc = "none"
           /\ Len(trace) = 3 => pc = "formatted"
           /\ \/ e.output = e.input
              \/ blackLib /\ FormatStr(e.input).exc = "none"
                          /\ e.output = FormatStr(e.input).val
           /\ (~blackLib \/ FormatStr(e.input).exc # "none") => e.output = e.input

C5_Witness ==
    /\ Entered(3) /\ blackLib
    /\ FormatStr(trace[3].input).exc # "none"
    /\ trace[3].input # <<>>

\* the compiler answered for text c: it parses, or it is a syntax error
Decided(c) == Compile(c).exc \in {"none", "SyntaxError"}

Structure(rep) ==
    [syntax   |-> rep[1],
     static   |-> rep[3],
     advisory |-> Len(rep) > (IF rep[3] = "Pyflakes issues:" THEN 5 ELSE 3)]

\* C7 as stated: with no provider, valid code gives an initial report that
\* starts with "No syntax errors detected.", a final code equal to the input
\* code, and a final report of the same structure as the initial one.
C7_FinalCodeIsInput ==
    (pc = "done" /\ NoCredential /\ Compile(code).exc = "none") =>
        /\ initial_report[1] = "No syntax errors detected."
        /\ optimised = code
        /\ Structure(final_report) = Structure(initial_report)

\* C7 amended: with no provider, valid code gives an initial report that starts
\* with "No syntax errors detected.", a final code equal to the formatter's
\* result on the input code (the input itself when the formatting library is
\* missing or raises, the library's text otherwise: "x = 1\n" for "x=1"), and a
\* final report of the same structure as the initial one.
C7_FinalCodeIsFormattedInput ==
    (pc = "done" /\ NoCredential /\ Compile(code).exc = "none") =>
        /\ initial_report[1] = "No syntax errors detected."
        /\ (~blackLib \/ FormatStr(code).exc # "none") => optimised = code
        /\ (blackLib /\ FormatStr(code).exc = "none") => optimised = FormatStr(code).val
        /\ (blackLib /\ code = UnformattedCode) => optimised = FormattedCode
        /\ Structure(final_report) = Structure(initial_report)
        /\ ~Structure(final_report).advisory

C7_Witness ==
    /\ pc = "done" /\ NoCredential /\ blackLib
    /\ code = UnformattedCode /\ query = <<"add a docstring">>
    /\ optimised = FormattedCode

\* C8: a missing code or query field ends the run in the validation error
\* before any stage (no report, no call, no output); validation errors are the
\* only errors that leave main; with both fields present the validation error
\* is never raised.
C8_OnlyValidationErrors ==
    /\ (pc # "start" /\ (data.code.tag = "absent" \/ data.query.tag = "absent")) =>
          /\ pc = "failed" /\ error = "ValueError"
          /\ trace = <<>> /\ calls = <<>> /\ stdout = <<>> /\ ~outFile.written
    /\ error # "none" => pc = "failed" /\ error = "ValueError"
    /\ (data.code.tag # "absent" /\ data.query.tag # "absent") => pc # "failed"

\* C9: no call is made twice: per stage at most one compile, one pyflakes
\* call, one advisory call, one rewrite call and one format call, also when
\* the call failed; a run that is done has run the formatter stage once.
C9_NoRetries ==
    /\ \A i \in 1..Len(calls) :
          \/ calls[i].stage \in {"initial", "final"}
               /\ calls[i].op \in {"compile", "pyflakes", "llm_advice"}
          \/ calls[i] = [stage |-> "rewrite", op |-> "llm_rewrite"]
          \/ calls[i] = [stage |-> "format", op |-> "format_str"]
    /\ \A i, j \in 1..Len(calls) : calls[i] = calls[j] => i = j
    /\ pc = "done" =>
          /\ Cardinality({i \in 1..Len(trace) : trace[i].stage = "Formatter"}) = 1
          /\ CallCount("initial", "compile") = 1 /\ CallCount("final", "compile") = 1
          /\ CallCount("format", "format_str") = (IF blackLib THEN 1 ELSE 0)
          /\ CallCount("rewrite", "llm_rewrite") = (IF optimiserClient THEN 1 ELSE 0)
          /\ CallCount("initial", "llm_advice") = (IF debuggerClient THEN 1 ELSE 0)
          /\ CallCount("final", "llm_advice") = (IF debuggerClient THEN 1 ELSE 0)
          /\ CallCount("initial", "pyflakes") = (IF pyflakesLib THEN 1 ELSE 0)
          /\ CallCount("final", "pyflakes") = (IF pyflakesLib THEN 1 ELSE 0)

C9_Witness ==
    /\ pc = "done" /\ debuggerClient /\ optimiserClient /\ blackLib /\ pyflakesLib
    /\ resps.initial.kind = "raise"
    /\ resps.rewrite.kind = "raise"
    /\ resps.final.kind = "nochoices"

\* the report the claim describes for text c and service outcome resp
ComposedReport(c, resp) ==
    LET syntaxLine == IF Compile(c).exc = "none"
                      THEN <<"No syntax errors detected.">>
                      ELSE <<"Syntax error: ">> \o Compile(c).val
        static     == IF ~pyflakesLib
                      THEN <<"Pyflakes not installed; skipping static analysis.">>
                      ELSE IF Pyflakes(c).warnings = 0
                      THEN <<"Pyflakes: no issues found.">>
                      ELSE <<"Pyflakes issues:", "\n">> \o strip(Pyflakes(c).output)
        advisory   == IF ~debuggerClient THEN <<>>
                      ELSE IF resp.kind = "content" THEN strip(resp.text)
                      ELSE <<"Error contacting Groq: ">> \o ChatCompletion(resp).val
    IN syntaxLine \o <<"\n">> \o static
       \o (IF advisory = <<>> THEN <<>> ELSE <<"\n">> \o advisory)

\* C10: a report is the syntax line, then the static block, then (only with a
\* client, and only when non-empty) the advisory block, joined by newlines;
\* the advisory block is the response, or "Error contacting Groq: <error>".
C10_ReportComposition ==
    /\ Returned(1) => trace[1].output = ComposedReport(trace[1].input, resps.initial)
    /\ Returned(4) => trace[4].output = ComposedReport(trace[4].input, resps.final)
    /\ \A n \in {1, 4} : (Entered(n) /\ Decided(trace[n].input)) => Returned(n)
    /\ \A n \in {1, 4} : Returned(n) => Decided(trace[n].input)

C10_Witness ==
    /\ Returned(4) /\ debuggerClient /\ pyflakesLib
    /\ resps.final.kind = "raise" /\ resps.final.text # <<>>
    /\ Compile(trace[4].input).exc = "SyntaxError"

====
